---- MODULE Spec2Model ----
(***************************************************************************)
(* Two-fighter canvas game: the base variant (src/game5.js, two keyboard   *)
(* players) and the enhanced variant (src/unnamed/part_000, player against *)
(* an AI-driven boss with dodge and combo).                                *)
(*                                                                         *)
(* Units.  Horizontal positions and velocities are whole pixels.  The      *)
(* vertical axis is kept in tenths of a pixel (gravity 0.7 is 7 tenths),   *)
(* so posY, velY, heightT and canvasHeightT are tenths.  Wall-clock time   *)
(* (Date.now()) is in milliseconds.  currentFrame is a frame index, or     *)
(* NaN for the JavaScript NaN that `x % 0` produces.                       *)
(***************************************************************************)
EXTENDS Integers, Sequences, FiniteSets, TLC

\* ------------------------------------------------------------------ bounds
MaxFrames == 12      \* frames explored from each initial state of Spec
MaxKeys == 1         \* key events explored from each initial state of Spec
MaxCalls == 3        \* method calls explored per behaviour of UnitSpec
MaxTicks == 125      \* update ticks counted by the tick-by-tick specifications
MaxDodges == 1       \* further dodges started per behaviour of DodgeSpec
StartTime == 1000    \* Date.now() when the page starts, in ms

\* ------------------------------------------------------- program constants
canvasWidth == 1024
canvasHeight == 576
canvasHeightT == canvasHeight * 10
gravity == 7
width == 50
height == 150
heightT == height * 10
framesHold == 10
groundY == 426
baseAttackCooldown == 120
baseAttackRange == 100
enhAttackRange == 120
comboWindow == 500
comboBaseCooldown == 30
comboStepCooldown == 5
comboModulus == 3
dodgeFrames == 15
dodgeRecover == 45
dodgeSpeed == 12
runSpeed == 5
jumpVelocity == -200
NaN == -1

Variants == {"base", "enhanced"}
Who == {"player", "enemy"}

\* ------------------------------------------------------------ animations
\* frameDuration 0 stands for an animation without a frameDuration property.
Anim(n, d) == [frames |-> n, frameDuration |-> d]

AnimationKeys ==
  {"idleRight", "idleLeft", "runRight", "runLeft",
   "jumpRight", "jumpLeft", "attackRight", "attackLeft"}

Animations(attackDuration) ==
  [k \in AnimationKeys |->
     IF k \in {"runRight", "runLeft"} THEN Anim(2, 0)
     ELSE IF k \in {"attackRight", "attackLeft"} THEN Anim(2, attackDuration)
     ELSE Anim(1, 0)]

\* -------------------------------------------------------------- Fighter
\* Fighter.constructor: the option object's health, maxHealth and
\* attackDamage are not destructured, so every fighter of a variant gets the
\* same hard-coded values.
NewFighter(v, x, attackDuration) ==
  [posX |-> x, posY |-> groundY * 10, velX |-> 0, velY |-> 0,
   animations |-> Animations(attackDuration),
   currentAnimation |-> "idleRight",
   health |-> IF v = "base" THEN 100 ELSE 200,
   maxHealth |-> IF v = "base" THEN 100 ELSE 200,
   isAttacking |-> FALSE,
   attackCooldown |-> 0,
   attackDamage |-> IF v = "base" THEN 10 ELSE 15,
   isDodging |-> FALSE,
   dodgeCooldown |-> 0,
   dodgeDuration |-> IF v = "base" THEN 0 ELSE dodgeFrames,
   canCombo |-> FALSE,
   comboCount |-> 0,
   lastAttackTime |-> 0,
   framesElapsed |-> 0,
   currentFrame |-> 0,
   lastDirection |-> "right"]

\* the setter that resets the frame on every call
setAnimationAlways(f, animationKey) ==
  [f EXCEPT !.currentAnimation = animationKey, !.currentFrame = 0]

setAnimation(f, animationKey) ==
  IF f.currentAnimation # animationKey
  THEN [f EXCEPT !.currentAnimation = animationKey, !.currentFrame = 0]
  ELSE f

Facing(f, stem) == IF f.lastDirection = "right" THEN stem \o "Right" ELSE stem \o "Left"

\* (currentFrame + 1) % frames.length in JavaScript arithmetic
NextFrame(cf, len) ==
  IF cf = NaN \/ len = 0 THEN NaN ELSE (cf + 1) % len

\* Fighter.update, lines "Update animation frames"
UpdateAnimationFrame(f) ==
  LET fe == f.framesElapsed + 1
      g == [f EXCEPT !.framesElapsed = fe]
  IN IF f.currentAnimation \in DOMAIN f.animations
     THEN LET a == f.animations[f.currentAnimation]
              frameDuration == IF a.frameDuration # 0 THEN a.frameDuration ELSE framesHold
          IN IF fe % frameDuration = 0
             THEN [g EXCEPT !.currentFrame = NextFrame(f.currentFrame, a.frames)]
             ELSE g
     ELSE g

\* the boundaries without the left one
ClampXNoLeft(x) == IF x + width > canvasWidth THEN canvasWidth - width ELSE x

\* Fighter.update, "Screen boundaries"
ClampX(x) ==
  LET x1 == IF x < 0 THEN 0 ELSE x
  IN IF x1 + width > canvasWidth THEN canvasWidth - width ELSE x1

\* the physics with the vertical velocity kept on landing
UpdatePhysicsNoStop(f) ==
  LET x == ClampX(f.posX + f.velX)
      y == f.posY + f.velY
  IN IF y + heightT >= canvasHeightT
     THEN [f EXCEPT !.posX = x, !.posY = canvasHeightT - heightT]
     ELSE [f EXCEPT !.posX = x, !.posY = y, !.velY = f.velY + gravity]

\* Fighter.update, "Apply gravity" .. "Stop falling at ground level"
UpdatePhysics(f) ==
  LET x == ClampX(f.posX + f.velX)
      y == f.posY + f.velY
  IN IF y + heightT >= canvasHeightT
     THEN [f EXCEPT !.posX = x, !.velY = 0, !.posY = canvasHeightT - heightT]
     ELSE [f EXCEPT !.posX = x, !.posY = y, !.velY = f.velY + gravity]

\* the base timers counting down two per tick
UpdateTimersBaseFast(f) ==
  IF f.attackCooldown > 0
  THEN [f EXCEPT !.attackCooldown = IF f.attackCooldown > 1 THEN f.attackCooldown - 2 ELSE 0]
  ELSE IF f.isAttacking THEN [f EXCEPT !.isAttacking = FALSE] ELSE f

\* Fighter.update of src/game5.js, "Handle attack cooldown"
UpdateTimersBase(f) ==
  IF f.attackCooldown > 0
  THEN [f EXCEPT !.attackCooldown = f.attackCooldown - 1]
  ELSE IF f.isAttacking THEN [f EXCEPT !.isAttacking = FALSE] ELSE f

\* the enhanced timers clearing isAttacking only in a tick that starts with
\* the cooldown at 0
UpdateTimersEnhancedLate(f) ==
  LET f1 == IF f.attackCooldown > 0
            THEN [f EXCEPT !.attackCooldown = f.attackCooldown - 1] ELSE f
      f2 == IF f1.dodgeCooldown > 0
            THEN [f1 EXCEPT !.dodgeCooldown = f1.dodgeCooldown - 1] ELSE f1
      f3 == IF f.attackCooldown <= 0 /\ f2.isAttacking
            THEN [f2 EXCEPT !.isAttacking = FALSE, !.canCombo = TRUE] ELSE f2
  IN IF f3.isDodging
     THEN LET f4 == [f3 EXCEPT !.dodgeDuration = f3.dodgeDuration - 1]
          IN IF f4.dodgeDuration <= 0
             THEN setAnimation([f4 EXCEPT !.isDodging = FALSE,
                                          !.dodgeCooldown = dodgeRecover,
                                          !.velX = 0],
                               Facing(f4, "idle"))
             ELSE f4
     ELSE f3

\* the enhanced timers ending a dodge without stopping the fighter
UpdateTimersEnhancedSliding(f) ==
  LET f1 == IF f.attackCooldown > 0
            THEN [f EXCEPT !.attackCooldown = f.attackCooldown - 1] ELSE f
      f2 == IF f1.dodgeCooldown > 0
            THEN [f1 EXCEPT !.dodgeCooldown = f1.dodgeCooldown - 1] ELSE f1
      f3 == IF f2.attackCooldown <= 0 /\ f2.isAttacking
            THEN [f2 EXCEPT !.isAttacking = FALSE, !.canCombo = TRUE] ELSE f2
  IN IF f3.isDodging
     THEN LET f4 == [f3 EXCEPT !.dodgeDuration = f3.dodgeDuration - 1]
          IN IF f4.dodgeDuration <= 0
             THEN setAnimation([f4 EXCEPT !.isDodging = FALSE,
                                          !.dodgeCooldown = dodgeRecover],
                               Facing(f4, "idle"))
             ELSE f4
     ELSE f3

\* Fighter.update of the enhanced variant, "Handle cooldowns" .. "Handle dodge"
UpdateTimersEnhanced(f) ==
  LET f1 == IF f.attackCooldown > 0
            THEN [f EXCEPT !.attackCooldown = f.attackCooldown - 1] ELSE f
      f2 == IF f1.dodgeCooldown > 0
            THEN [f1 EXCEPT !.dodgeCooldown = f1.dodgeCooldown - 1] ELSE f1
      f3 == IF f2.attackCooldown <= 0 /\ f2.isAttacking
            THEN [f2 EXCEPT !.isAttacking = FALSE, !.canCombo = TRUE] ELSE f2
  IN IF f3.isDodging
     THEN LET f4 == [f3 EXCEPT !.dodgeDuration = f3.dodgeDuration - 1]
          IN IF f4.dodgeDuration <= 0
             THEN setAnimation([f4 EXCEPT !.isDodging = FALSE,
                                          !.dodgeCooldown = dodgeRecover,
                                          !.velX = 0],
                               Facing(f4, "idle"))
             ELSE f4
     ELSE f3

\* Fighter.update (the draw calls do not change state)
Update(f, v) ==
  LET f1 == UpdatePhysics(UpdateAnimationFrame(f))
  IN IF v = "base" THEN UpdateTimersBase(f1) ELSE UpdateTimersEnhanced(f1)

attackRange(v) == IF v = "base" THEN baseAttackRange ELSE enhAttackRange

attackStartX(a, v) ==
  IF a.lastDirection = "right" THEN a.posX + width ELSE a.posX - attackRange(v)

\* the hitbox reaching one pixel further to the right
attackEndXInclusive(a, v) ==
  IF a.lastDirection = "right" THEN a.posX + width + attackRange(v) + 1 ELSE a.posX

attackEndX(a, v) ==
  IF a.lastDirection = "right" THEN a.posX + width + attackRange(v) ELSE a.posX

\* the test without the comparison of attackStartX
HitsAhead(a, t, v) ==
  /\ attackEndX(a, v) > t.posX
  /\ a.posY < t.posY + heightT
  /\ a.posY + heightT > t.posY

\* the condition of the `if` that applies damage in Fighter.attack
Hits(a, t, v) ==
  /\ attackEndX(a, v) > t.posX
  /\ attackStartX(a, v) < t.posX + width
  /\ a.posY < t.posY + heightT
  /\ a.posY + heightT > t.posY

\* the subtraction without the clamp at 0
DamageNoClamp(t, dmg) == [t EXCEPT !.health = t.health - dmg]

\* target.health -= this.attackDamage; if (target.health < 0) target.health = 0
Damage(t, dmg) ==
  LET h == t.health - dmg
  IN [t EXCEPT !.health = IF h < 0 THEN 0 ELSE h]

\* the guard without the test of isDodging
CanAttackWhileDodging(a, v) == a.attackCooldown <= 0

\* the guard of Fighter.attack
CanAttack(a, v) ==
  IF v = "base" THEN a.attackCooldown <= 0
  ELSE a.attackCooldown <= 0 /\ ~a.isDodging

\* the combo that never goes past its second step
ComboStepStuck(a, t) ==
  IF t - a.lastAttackTime < comboWindow /\ a.canCombo THEN 1 ELSE 0

\* the combo without the time window
ComboStepAnyTime(a, t) ==
  IF a.canCombo THEN (a.comboCount + 1) % comboModulus ELSE 0

\* "Combo system" of the enhanced Fighter.attack
ComboStep(a, t) ==
  IF t - a.lastAttackTime < comboWindow /\ a.canCombo
  THEN (a.comboCount + 1) % comboModulus
  ELSE 0

\* the started attack whose cooldown grows with the combo step
StartAttackRising(a, v, t) ==
  IF v = "base"
  THEN [a EXCEPT !.isAttacking = TRUE, !.attackCooldown = baseAttackCooldown]
  ELSE LET c == ComboStep(a, t)
       IN [a EXCEPT !.isAttacking = TRUE,
                    !.comboCount = c,
                    !.attackCooldown = comboBaseCooldown + c * comboStepCooldown,
                    !.lastAttackTime = t]

\* the attacker's fields after a started attack
StartAttack(a, v, t) ==
  IF v = "base"
  THEN [a EXCEPT !.isAttacking = TRUE, !.attackCooldown = baseAttackCooldown]
  ELSE LET c == ComboStep(a, t)
       IN [a EXCEPT !.isAttacking = TRUE,
                    !.comboCount = c,
                    !.attackCooldown = comboBaseCooldown - c * comboStepCooldown,
                    !.lastAttackTime = t]

\* the attack that spares a dodging target
AttackUnlessDodged(a, tgt, v, t) ==
  IF CanAttack(a, v)
  THEN [attacker |-> StartAttack(a, v, t),
        target |-> IF Hits(a, tgt, v) /\ ~tgt.isDodging
                   THEN Damage(tgt, a.attackDamage) ELSE tgt]
  ELSE [attacker |-> a, target |-> tgt]

\* Fighter.attack(target) called at wall-clock time t: the attacker and the
\* target afterwards
Attack(a, tgt, v, t) ==
  IF CanAttack(a, v)
  THEN [attacker |-> StartAttack(a, v, t),
        target |-> IF Hits(a, tgt, v) THEN Damage(tgt, a.attackDamage) ELSE tgt]
  ELSE [attacker |-> a, target |-> tgt]

\* ---------------------------------------------------------- AIController
Abs(n) == IF n < 0 THEN -n ELSE n

Grounded(f) == f.posY + heightT >= canvasHeightT

\* "Ensure animation object exists" / "Set frame duration if not already set"
EnsureAnimation(f, key) ==
  IF key \notin DOMAIN f.animations
  THEN [f EXCEPT !.animations =
          [k \in DOMAIN f.animations \cup {key} |->
             IF k = key THEN Anim(0, 5) ELSE f.animations[k]]]
  ELSE IF f.animations[key].frameDuration = 0
       THEN [f EXCEPT !.animations[key].frameDuration = 5]
       ELSE f

\* the attack branch of AIController.update
AIAttack(e, p, t, direction) ==
  LET attackAnim == "attack" \o direction
      e1 == EnsureAnimation(setAnimation(e, attackAnim), attackAnim)
      r == Attack(e1, p, "enhanced", t)
      predictDistance10 == 10 * p.posX + 7 * p.velX - 10 * e.posX
  IN [fighter |-> [r.attacker EXCEPT !.velX = IF predictDistance10 > 0 THEN 3 ELSE -3],
      target |-> r.target,
      nextActionTime |-> t + 50]

\* the movement that chases the target's position without the prediction
AIMoveNoPrediction(e, p, t, direction, r40) ==
  LET distanceX == p.posX - e.posX
      chaseSpeed == 5
      edgeThreshold == 100
      nearLeftEdge == e.posX < edgeThreshold
      nearRightEdge == e.posX > canvasWidth - width - edgeThreshold
      corner == (nearLeftEdge /\ distanceX < 0) \/ (nearRightEdge /\ distanceX > 0)
      vx == IF corner
            THEN (IF distanceX > 0 THEN -chaseSpeed ELSE chaseSpeed)
            ELSE (IF distanceX > 0 THEN chaseSpeed ELSE -chaseSpeed)
      vy == IF corner /\ Grounded(e) THEN -150 ELSE e.velY
      e1 == [setAnimation([e EXCEPT !.velX = vx, !.velY = vy],
                          IF vx > 0 THEN "runRight" ELSE "runLeft")
               EXCEPT !.lastDirection = direction]
      shouldJump == Abs(distanceX) > 80 \/ nearLeftEdge \/ nearRightEdge \/ r40
      e2 == IF Grounded(e1) /\ shouldJump
            THEN setAnimation([e1 EXCEPT !.velY = -220, !.velX = (e1.velX * 18) \div 10],
                              Facing(e1, "jump"))
            ELSE e1
  IN [fighter |-> e2, target |-> p, nextActionTime |-> t + 100]

\* the movement and jump branches of AIController.update; r40 is the outcome
\* of Math.random() < 0.4
AIMove(e, p, t, direction, r40) ==
  LET distanceX == p.posX - e.posX
      chaseSpeed == 5
      edgeThreshold == 100
      nearLeftEdge == e.posX < edgeThreshold
      nearRightEdge == e.posX > canvasWidth - width - edgeThreshold
      corner == (nearLeftEdge /\ distanceX < 0) \/ (nearRightEdge /\ distanceX > 0)
      predictDistance10 == 10 * p.posX + 5 * p.velX - 10 * e.posX
      vx == IF corner
            THEN (IF distanceX > 0 THEN -chaseSpeed ELSE chaseSpeed)
            ELSE (IF predictDistance10 > 0 THEN chaseSpeed ELSE -chaseSpeed)
      vy == IF corner /\ Grounded(e) THEN -150 ELSE e.velY
      e1 == [setAnimation([e EXCEPT !.velX = vx, !.velY = vy],
                          IF vx > 0 THEN "runRight" ELSE "runLeft")
               EXCEPT !.lastDirection = direction]
      shouldJump == Abs(distanceX) > 80 \/ nearLeftEdge \/ nearRightEdge \/ r40
      e2 == IF Grounded(e1) /\ shouldJump
            THEN setAnimation([e1 EXCEPT !.velY = -220, !.velX = (e1.velX * 18) \div 10],
                              Facing(e1, "jump"))
            ELSE e1
  IN [fighter |-> e2, target |-> p, nextActionTime |-> t + 100]

\* the update without the gate on nextActionTime
AIUpdateUngated(e, p, nat, t, r30, r40) ==
  LET distanceX == p.posX - e.posX
      distanceY == p.posY - e.posY
      direction == IF distanceX > 0 THEN "right" ELSE "left"
      inAttackRange == Abs(distanceX) < 150 /\ Abs(distanceY) < 1000
      shouldAttack == inAttackRange \/ (Abs(distanceX) < 200 /\ r30)
  IN IF shouldAttack
     THEN AIAttack(e, p, t, direction)
     ELSE AIMove(e, p, t, direction, r40)

\* the update that attacks on the random draw only
AIUpdateRandomOnly(e, p, nat, t, r30, r40) ==
  IF t < nat
  THEN [fighter |-> e, target |-> p, nextActionTime |-> nat]
  ELSE LET distanceX == p.posX - e.posX
           direction == IF distanceX > 0 THEN "right" ELSE "left"
       IN IF Abs(distanceX) < 200 /\ r30
          THEN AIAttack(e, p, t, direction)
          ELSE AIMove(e, p, t, direction, r40)

\* AIController.update at wall-clock time t; r30 and r40 are the outcomes of
\* Math.random() < 0.3 and Math.random() < 0.4
AIUpdate(e, p, nat, t, r30, r40) ==
  IF t < nat
  THEN [fighter |-> e, target |-> p, nextActionTime |-> nat]
  ELSE LET distanceX == p.posX - e.posX
           distanceY == p.posY - e.posY
           direction == IF distanceX > 0 THEN "right" ELSE "left"
           inAttackRange == Abs(distanceX) < 150 /\ Abs(distanceY) < 1000
           shouldAttack == inAttackRange \/ (Abs(distanceX) < 200 /\ r30)
       IN IF shouldAttack
          THEN AIAttack(e, p, t, direction)
          ELSE AIMove(e, p, t, direction, r40)

\* ------------------------------------------------------------ the driver
\* "Player movement logic" / "Enemy movement logic" of animate
ApplyInput(f, k) ==
  IF k.left
  THEN [setAnimation([f EXCEPT !.velX = -runSpeed], "runLeft") EXCEPT !.lastDirection = "left"]
  ELSE IF k.right
  THEN [setAnimation([f EXCEPT !.velX = runSpeed], "runRight") EXCEPT !.lastDirection = "right"]
  ELSE setAnimation([f EXCEPT !.velX = 0], Facing(f, "idle"))

\* the check that looks at the player only
PlayerStillFighting(p, e) == p.health > 0

\* "Check for game over": is another frame requested
StillFighting(p, e) == p.health > 0 /\ e.health > 0

\* gameLoop of src/game5.js (animate, then the game-over check)
FrameBase(p, e, k, running) ==
  IF ~running
  THEN [player |-> p, enemy |-> e, nextActionTime |-> 0,
        gameRunning |-> FALSE, scheduled |-> FALSE]
  ELSE LET p1 == Update(p, "base")
           e1 == Update(e, "base")
           p2 == ApplyInput(p1, k.player)
           e2 == ApplyInput(e1, k.enemy)
       IN [player |-> p2, enemy |-> e2, nextActionTime |-> 0,
           gameRunning |-> StillFighting(p2, e2),
           scheduled |-> StillFighting(p2, e2)]

\* animate with the input applied before the two updates
FrameEnhancedInputFirst(p, e, k, nat, t, r30, r40) ==
  LET p1 == Update(ApplyInput(p, k.player), "enhanced")
      e1 == Update(e, "enhanced")
      ai == AIUpdate(e1, p1, nat, t, r30, r40)
      e2 == IF ai.fighter.velX = 0
            THEN setAnimation(ai.fighter, Facing(ai.fighter, "idle"))
            ELSE ai.fighter
  IN [player |-> ai.target, enemy |-> e2, nextActionTime |-> ai.nextActionTime,
      gameRunning |-> TRUE,
      scheduled |-> StillFighting(ai.target, e2)]

\* animate of the enhanced variant, run at wall-clock time t
FrameEnhanced(p, e, k, nat, t, r30, r40) ==
  LET p1 == Update(p, "enhanced")
      e1 == Update(e, "enhanced")
      p2 == ApplyInput(p1, k.player)
      ai == AIUpdate(e1, p2, nat, t, r30, r40)
      e2 == IF ai.fighter.velX = 0
            THEN setAnimation(ai.fighter, Facing(ai.fighter, "idle"))
            ELSE ai.fighter
  IN [player |-> ai.target, enemy |-> e2, nextActionTime |-> ai.nextActionTime,
      gameRunning |-> TRUE,
      scheduled |-> StillFighting(ai.target, e2)]

NoKeys == [player |-> [left |-> FALSE, right |-> FALSE],
           enemy |-> [left |-> FALSE, right |-> FALSE]]

\* the fighters as constructed (and, enhanced, after resetGame)
NewPlayer(v) == NewFighter(v, 100, 775)

NewEnemy(v) ==
  IF v = "base"
  THEN NewFighter(v, canvasWidth - 200, 775)
  ELSE setAnimation(NewFighter(v, canvasWidth - 200, 15), "idleLeft")

\* The whole program state as one record w: the two Fighter objects, the
\* held keys, enemyAI.nextActionTime, Date.now(), the base variant's
\* gameRunning flag and whether a requestAnimationFrame callback is pending.

\* one run of the requestAnimationFrame callback, ms milliseconds after the
\* previous event
FrameW(w, ms, r30, r40) ==
  LET t == w.now + ms
      r == IF w.variant = "base"
           THEN FrameBase(w.player, w.enemy, w.keys, w.gameRunning)
           ELSE FrameEnhanced(w.player, w.enemy, w.keys, w.nextActionTime, t, r30, r40)
  IN [w EXCEPT !.player = r.player, !.enemy = r.enemy,
               !.nextActionTime = r.nextActionTime,
               !.gameRunning = r.gameRunning,
               !.scheduled = r.scheduled,
               !.now = t]

\* The page's start-up callback: both fighters are constructed, the first
\* frame runs synchronously, then the key listeners are installed.
Started(v) ==
  FrameW([variant |-> v, player |-> NewPlayer(v), enemy |-> NewEnemy(v),
          keys |-> NoKeys, nextActionTime |-> 0, now |-> StartTime,
          gameRunning |-> TRUE, scheduled |-> TRUE],
         0, FALSE, FALSE)

\* "w" / "ArrowUp"
Jump(f) ==
  IF Grounded(f)
  THEN setAnimation([f EXCEPT !.velY = jumpVelocity], Facing(f, "jump"))
  ELSE f

\* " " / "k" of src/game5.js: attack, then the attack animation
KeyAttackBase(a, tgt, t) ==
  LET r == Attack(a, tgt, "base", t)
  IN [attacker |-> setAnimation(r.attacker, Facing(r.attacker, "attack")),
      target |-> r.target]

\* " " of the enhanced variant
KeyAttackEnhanced(a, tgt, t) ==
  IF ~a.isDodging
  THEN LET r == Attack(a, tgt, "enhanced", t)
       IN [attacker |-> setAnimation(r.attacker, Facing(r.attacker, "attack")),
           target |-> r.target]
  ELSE [attacker |-> a, target |-> tgt]

\* the dodge key without the test of isAttacking
DodgeWhileAttacking(f) ==
  IF f.dodgeCooldown <= 0
  THEN setAnimation([f EXCEPT !.isDodging = TRUE,
                              !.dodgeDuration = dodgeFrames,
                              !.velX = IF f.lastDirection = "right"
                                       THEN dodgeSpeed ELSE -dodgeSpeed],
                    Facing(f, "run"))
  ELSE f

\* "s" of the enhanced variant
Dodge(f) ==
  IF f.dodgeCooldown <= 0 /\ ~f.isAttacking
  THEN setAnimation([f EXCEPT !.isDodging = TRUE,
                              !.dodgeDuration = dodgeFrames,
                              !.velX = IF f.lastDirection = "right"
                                       THEN dodgeSpeed ELSE -dodgeSpeed],
                    Facing(f, "run"))
  ELSE f

KeysOf(v) ==
  IF v = "base"
  THEN {"a", "d", "w", " ", "ArrowLeft", "ArrowRight", "ArrowUp", "k"}
  ELSE {"a", "d", "w", " ", "s"}

HeldKeysOf(v) ==
  IF v = "base" THEN {"a", "d", "ArrowLeft", "ArrowRight"} ELSE {"a", "d"}

\* the held-key record after key k went down (held = TRUE) or up
SetKey(ks, k, held) ==
  CASE k = "a" -> [ks EXCEPT !.player.left = held]
    [] k = "d" -> [ks EXCEPT !.player.right = held]
    [] k = "ArrowLeft" -> [ks EXCEPT !.enemy.left = held]
    [] k = "ArrowRight" -> [ks EXCEPT !.enemy.right = held]
    [] OTHER -> ks

\* the keydown listener, for a key k the variant listens to
KeyDownW(w, k) ==
  CASE k = "w" -> [w EXCEPT !.player = Jump(w.player)]
    [] k = "ArrowUp" -> [w EXCEPT !.enemy = Jump(w.enemy)]
    [] k = " " ->
         LET r == IF w.variant = "base"
                  THEN KeyAttackBase(w.player, w.enemy, w.now)
                  ELSE KeyAttackEnhanced(w.player, w.enemy, w.now)
         IN [w EXCEPT !.player = r.attacker, !.enemy = r.target]
    [] k = "k" ->
         LET r == KeyAttackBase(w.enemy, w.player, w.now)
         IN [w EXCEPT !.player = r.target, !.enemy = r.attacker]
    [] k = "s" -> [w EXCEPT !.player = Dodge(w.player)]
    [] OTHER -> [w EXCEPT !.keys = SetKey(w.keys, k, TRUE)]

\* the keyup listener
KeyUpW(w, k) == [w EXCEPT !.keys = SetKey(w.keys, k, FALSE)]

\* ------------------------------------------------- play before the model
\* The match is explored from the start-up state and from states reached by
\* playing it: a script is a sequence of steps <<"down", key>>, <<"up", key>>
\* and <<"frames", n>> run from the start-up state on a display showing one
\* frame every ms milliseconds, with both Math.random() tests failing.
\* (The CHOOSE over a one-element set only fixes the order of evaluation:
\* the state is computed before the next step is applied to it.)
RECURSIVE Frames(_, _, _)
Frames(w, ms, n) ==
  IF n = 0 \/ ~w.scheduled THEN w
  ELSE IF n = 1
  THEN CHOOSE r \in {FrameW(x, ms, FALSE, FALSE) : x \in {w}} : TRUE
  ELSE CHOOSE r \in {Frames(x, ms, n - n \div 2) : x \in {Frames(w, ms, n \div 2)}} : TRUE

RunStep(w, ms, step) ==
  CASE step[1] = "down" -> KeyDownW(w, step[2])
    [] step[1] = "up" -> KeyUpW(w, step[2])
    [] step[1] = "frames" -> Frames(w, ms, step[2])

RECURSIVE RunScript(_, _, _)
RunScript(w, ms, script) ==
  IF script = <<>> THEN w
  ELSE CHOOSE r \in {RunScript(x, ms, Tail(script)) :
                       x \in {RunStep(w, ms, Head(script))}} : TRUE

RECURSIVE Repeat(_, _)
Repeat(script, n) == IF n = 0 THEN <<>> ELSE script \o Repeat(script, n - 1)

Played(v, ms, script) == RunScript(Started(v), ms, script)

VARIABLES
  variant,         \* which of the two programs runs
  frameMs,         \* milliseconds between two frames of this display
  player, enemy,   \* the two Fighter objects
  keys,            \* the held-key record
  nextActionTime,  \* enemyAI.nextActionTime
  now,             \* Date.now()
  gameRunning,     \* the base variant's flag
  scheduled,       \* a requestAnimationFrame callback is pending
  lastEvent,       \* the handler that ran last and its argument
  frames,          \* frames run since the initial state
  events           \* key events (method calls in UnitSpec) since the initial state

vars == <<variant, frameMs, player, enemy, keys, nextActionTime, now,
          gameRunning, scheduled, lastEvent, frames, events>>

Event(kind, arg) == [kind |-> kind, arg |-> arg]

\* the program state as a record
World ==
  [variant |-> variant, player |-> player, enemy |-> enemy, keys |-> keys,
   nextActionTime |-> nextActionTime, now |-> now,
   gameRunning |-> gameRunning, scheduled |-> scheduled]

Is(w) ==
  /\ variant = w.variant
  /\ player = w.player
  /\ enemy = w.enemy
  /\ keys = w.keys
  /\ nextActionTime = w.nextActionTime
  /\ now = w.now
  /\ gameRunning = w.gameRunning
  /\ scheduled = w.scheduled

Becomes(w) ==
  /\ variant' = w.variant
  /\ player' = w.player
  /\ enemy' = w.enemy
  /\ keys' = w.keys
  /\ nextActionTime' = w.nextActionTime
  /\ now' = w.now
  /\ gameRunning' = w.gameRunning
  /\ scheduled' = w.scheduled

\* scripts of play
Hold(k, n) == << <<"down", k>>, <<"frames", n>>, <<"up", k>> >>

Press(k, n) == << <<"down", k>>, <<"frames", n>> >>

Wait(n) == << <<"frames", n>> >>

\* base: the player walks up to the enemy, the enemy turns to face him
Duel == Hold("d", 116) \o Hold("ArrowLeft", 1) \o Wait(1)

\* base: both attack at once, then wait n frames
Exchange(n) == << <<"down", " ">>, <<"down", "k">>, <<"frames", n>> >>

\* enhanced: the boss arrives, the player turns left to face him
FaceBoss(n) == Wait(n) \o Hold("a", 1) \o Wait(1)

Scenario(v, ms, script) == [variant |-> v, ms |-> ms, script |-> script]

Scenarios ==
  { Scenario("base", 17, <<>>),
    Scenario("base", 17, Press("a", 19)),
    Scenario("base", 17, Press("w", 50)),
    Scenario("base", 17, Duel),
    Scenario("base", 17, Duel \o Exchange(114)),
    Scenario("base", 17, Duel \o Repeat(Exchange(121), 9)),
    Scenario("enhanced", 17, <<>>),
    Scenario("enhanced", 7, <<>>),
    Scenario("enhanced", 17, Wait(185)),
    Scenario("enhanced", 17, Press("a", 19)),
    Scenario("enhanced", 17, Press("s", 10)),
    Scenario("enhanced", 17, Press("s", 55)),
    Scenario("enhanced", 17, FaceBoss(110) \o Press(" ", 24)),
    Scenario("enhanced", 7, FaceBoss(150) \o Repeat(Press(" ", 31), 18)),
    Scenario("enhanced", 7, Hold("d", 250) \o Wait(695)),
    Scenario("enhanced", 2, Press(" ", 50)),
    Scenario("enhanced", 2, Repeat(Press(" ", 50), 2)) }

Init ==
  /\ \E s \in Scenarios :
       /\ frameMs = s.ms
       /\ Is(Played(s.variant, s.ms, s.script))
  /\ lastEvent = Event("start", "")
  /\ frames = 0
  /\ events = 0

\* a requestAnimationFrame callback runs
Frame ==
  /\ scheduled
  /\ frames < MaxFrames
  /\ \E r30, r40 \in BOOLEAN : Becomes(FrameW(World, frameMs, r30, r40))
  /\ lastEvent' = Event("frame", "")
  /\ frames' = frames + 1
  /\ UNCHANGED <<frameMs, events>>

KeyDown(k) ==
  /\ events < MaxKeys
  /\ k \in KeysOf(variant)
  /\ Becomes(KeyDownW(World, k))
  /\ lastEvent' = Event("keydown", k)
  /\ events' = events + 1
  /\ UNCHANGED <<frameMs, frames>>

KeyUp(k) ==
  /\ events < MaxKeys
  /\ k \in HeldKeysOf(variant)
  /\ Becomes(KeyUpW(World, k))
  /\ lastEvent' = Event("keyup", k)
  /\ events' = events + 1
  /\ UNCHANGED <<frameMs, frames>>

AllKeys == KeysOf("base") \cup KeysOf("enhanced")

Next ==
  \/ Frame
  \/ \E k \in AllKeys : KeyDown(k)
  \/ \E k \in AllKeys : KeyUp(k)

Spec == Init /\ [][Next]_vars

\* --------------------------------------------------- the Fighter class alone
\* UnitSpec: two Fighter objects of one variant under direct calls of
\* attack(other) and update(), with the clock read by attack() advancing
\* between calls.  No frame callback is pending and no key is held.
Other(who) == IF who = "player" THEN "enemy" ELSE "player"

UnitAttackW(w, who) ==
  IF who = "player"
  THEN LET r == Attack(w.player, w.enemy, w.variant, w.now)
       IN [w EXCEPT !.player = r.attacker, !.enemy = r.target]
  ELSE LET r == Attack(w.enemy, w.player, w.variant, w.now)
       IN [w EXCEPT !.player = r.target, !.enemy = r.attacker]

UnitUpdateW(w, who) ==
  IF who = "player"
  THEN [w EXCEPT !.player = Update(w.player, w.variant)]
  ELSE [w EXCEPT !.enemy = Update(w.enemy, w.variant)]

RECURSIVE Updates(_, _, _)
Updates(f, v, n) ==
  IF n = 0 THEN f
  ELSE IF n = 1 THEN CHOOSE r \in {Update(x, v) : x \in {f}} : TRUE
  ELSE CHOOSE r \in {Updates(x, v, n - n \div 2) : x \in {Updates(f, v, n \div 2)}} : TRUE

\* the attacker of the geometry cases: at x, facing dir, k update ticks into
\* a jump (k = 0: standing)
Stance(v, x, dir, k) ==
  LET f == [NewFighter(v, x, 775) EXCEPT !.lastDirection = dir]
  IN IF k = 0 THEN f ELSE Updates(Jump(f), v, k)

\* the target of the geometry cases: standing at x with health h
Standing(v, x, h) == [NewFighter(v, x, 775) EXCEPT !.health = h]

UnitWorld(v, a, b, t) ==
  [variant |-> v, player |-> a, enemy |-> b, keys |-> NoKeys,
   nextActionTime |-> 0, now |-> t, gameRunning |-> TRUE, scheduled |-> FALSE]

AttackerXs == {100, 400}

TargetXs ==
  {100, 101, 200, 229, 230, 231, 249, 250, 251, 260, 269, 270, 271,
   399, 400, 401, 549, 550, 551, 569, 570, 571}

JumpTicks == {0, 8, 9}

HealthsOf(v) == IF v = "base" THEN {100, 10} ELSE {200, 20, 5}

GeometryCasesOf(v) ==
  { UnitWorld(v, Stance(v, ax, dir, k), Standing(v, tx, h), StartTime) :
      ax \in AttackerXs, dir \in {"left", "right"},
      k \in JumpTicks, tx \in TargetXs, h \in HealthsOf(v) }

GeometryCases == UNION { GeometryCasesOf(v) : v \in Variants }

\* the attacker of the timing cases: it attacked gap ms ago and has been
\* updated n times since
Cooling(v, gap, n) ==
  Updates(Attack(Stance(v, 400, "right", 0), Standing(v, 900, 10), v,
                 StartTime - gap).attacker, v, n)

\* the same after two attacks, 2 * gap and gap ms ago, each followed by n updates
CoolingTwice(v, gap, n) ==
  LET a == Updates(Attack(Stance(v, 400, "right", 0), Standing(v, 900, 10), v,
                          StartTime - 2 * gap).attacker, v, n)
  IN Updates(Attack(a, Standing(v, 900, 10), v, StartTime - gap).attacker, v, n)

\* the attacker k update ticks into a dodge
Dodging(v, k) == Updates(Dodge(Stance(v, 400, "right", 0)), v, k)

TimingAttackers(v) ==
  { Cooling(v, gap, n) :
      gap \in {100, 450, 499, 500},
      n \in {0, 19, 20, 24, 25, 29, 30, 119, 120, 121} }
  \cup { CoolingTwice(v, 100, n) : n \in {25, 30} }
  \cup (IF v = "enhanced" THEN { Dodging(v, k) : k \in {0, 14} } ELSE {})

TimingCasesOf(v) ==
  { UnitWorld(v, a, Standing(v, 500, h), StartTime) :
      a \in TimingAttackers(v), h \in HealthsOf(v) }

TimingCases == UNION { TimingCasesOf(v) : v \in Variants }

UnitInit ==
  /\ \E w \in GeometryCases \cup TimingCases : Is(w)
  /\ frameMs = 17
  /\ lastEvent = Event("start", "")
  /\ frames = 0
  /\ events = 0

Call(kind, arg) ==
  /\ events < MaxCalls
  /\ events' = events + 1
  /\ lastEvent' = Event(kind, arg)
  /\ UNCHANGED <<frameMs, frames>>

UnitAttack(who) == Call("attack", who) /\ Becomes(UnitAttackW(World, who))

UnitUpdate(who) == Call("update", who) /\ Becomes(UnitUpdateW(World, who))

UnitWait(ms) == Call("wait", "") /\ Becomes([World EXCEPT !.now = now + ms])

UnitNext ==
  \/ \E who \in Who : UnitAttack(who)
  \/ \E who \in Who : UnitUpdate(who)
  \/ UnitWait(100)

UnitSpec == UnitInit /\ [][UnitNext]_vars

\* ------------------------------------------------ the AIController alone
\* AISpec: the boss and its target under direct calls of enemyAI.update(),
\* the boss's Fighter.update() and the passing of wall-clock time.
AIEnemyXs == {50, 500, 900}

AIDistances ==
  {-250, -200, -199, -150, -149, -60, -40, 0, 40, 60, 149, 150, 199, 200, 250}

\* the target's height above the boss, in tenths: |dy| of 0, 99 and 100 px
AIHeights == {0, 990, 1000}

AIGates == {0, StartTime + 1, StartTime + 50}

AITarget(x, up, vx) ==
  [NewPlayer("enhanced") EXCEPT !.posX = x, !.posY = groundY * 10 - up, !.velX = vx]

AICases ==
  { [UnitWorld("enhanced", AITarget(ex + dx, up, vx),
               [NewEnemy("enhanced") EXCEPT !.posX = ex], StartTime)
       EXCEPT !.nextActionTime = nat] :
      ex \in AIEnemyXs,
      dx \in AIDistances,
      up \in AIHeights, vx \in {-runSpeed, 0, runSpeed}, nat \in AIGates }

AIInit ==
  /\ \E w \in {c \in AICases : c.player.posX >= 0 /\ c.player.posX <= canvasWidth - width} :
       Is(w)
  /\ frameMs = 17
  /\ lastEvent = Event("start", "")
  /\ frames = 0
  /\ events = 0

\* enemyAI.update() at the current wall-clock time
AICallW(w, r30, r40) ==
  LET r == AIUpdate(w.enemy, w.player, w.nextActionTime, w.now, r30, r40)
  IN [w EXCEPT !.enemy = r.fighter, !.player = r.target,
               !.nextActionTime = r.nextActionTime]

AICall ==
  /\ Call("ai", "")
  /\ \E r30, r40 \in BOOLEAN : Becomes(AICallW(World, r30, r40))

AIFighterUpdate == Call("update", "enemy") /\ Becomes(UnitUpdateW(World, "enemy"))

AIWait(ms) == Call("wait", "") /\ Becomes([World EXCEPT !.now = now + ms])

AINext ==
  \/ AICall
  \/ AIFighterUpdate
  \/ AIWait(50)

AISpec == AIInit /\ [][AINext]_vars

\* ------------------------------------------------- one fighter, tick by tick
\* CycleSpec: a fighter that has just started an attack, under update()
\* ticks and further attack() calls at the same wall-clock time; frames
\* counts the update ticks since the last attack that started, events the
\* attacks started since the initial state.
JustAttacked(v, a) ==
  Attack(a, Standing(v, 900, 10), v, StartTime).attacker

CycleFighters(v) ==
  IF v = "base"
  THEN { JustAttacked(v, Stance(v, 400, "right", 0)) }
  ELSE { JustAttacked(v, Stance(v, 400, "right", 0)),
         JustAttacked(v, Cooling(v, 100, 30)),
         JustAttacked(v, CoolingTwice(v, 100, 30)) }

CycleCases ==
  UNION { { UnitWorld(v, a, Standing(v, 900, 10), StartTime) : a \in CycleFighters(v) } :
            v \in Variants }

CycleInit ==
  /\ \E w \in CycleCases : Is(w)
  /\ frameMs = 17
  /\ lastEvent = Event("start", "")
  /\ frames = 0
  /\ events = 0

CycleUpdate ==
  /\ frames < MaxTicks
  /\ Becomes(UnitUpdateW(World, "player"))
  /\ lastEvent' = Event("update", "player")
  /\ frames' = frames + 1
  /\ UNCHANGED <<frameMs, events>>

CycleAttack ==
  /\ CanAttack(player, variant) => events < MaxCalls
  /\ Becomes(UnitAttackW(World, "player"))
  /\ lastEvent' = Event("attack", "player")
  /\ frames' = IF CanAttack(player, variant) THEN 0 ELSE frames
  /\ events' = IF CanAttack(player, variant) THEN events + 1 ELSE events
  /\ UNCHANGED frameMs

CycleNext == CycleUpdate \/ CycleAttack

CycleSpec == CycleInit /\ [][CycleNext]_vars

\* DodgeSpec: the enhanced player that has just started a dodge, under
\* update() ticks and further presses of the dodge key; frames counts the
\* update ticks since the dodge started or, once it is over, since it ended,
\* events the dodges started since the initial state.
DodgeCases ==
  { UnitWorld("enhanced", Dodge(Stance("enhanced", 400, dir, 0)),
              Standing("enhanced", 900, 10), StartTime) : dir \in {"left", "right"} }

DodgeInit ==
  /\ \E w \in DodgeCases : Is(w)
  /\ frameMs = 17
  /\ lastEvent = Event("start", "")
  /\ frames = 0
  /\ events = 0

DodgeUpdate ==
  /\ frames < MaxTicks
  /\ Becomes(UnitUpdateW(World, "player"))
  /\ lastEvent' = Event("update", "player")
  /\ frames' = IF player.isDodging /\ ~Update(player, variant).isDodging THEN 0
               ELSE frames + 1
  /\ UNCHANGED <<frameMs, events>>

DodgeKey ==
  LET starts == player.dodgeCooldown <= 0 /\ ~player.isAttacking
  IN /\ starts => events < MaxDodges
     /\ Becomes([World EXCEPT !.player = Dodge(player)])
     /\ lastEvent' = Event("dodge", "player")
     /\ frames' = IF starts THEN 0 ELSE frames
     /\ events' = IF starts THEN events + 1 ELSE events
     /\ UNCHANGED frameMs

DodgeNext == DodgeUpdate \/ DodgeKey

DodgeSpec == DodgeInit /\ [][DodgeNext]_vars

\* FallSpec: a fighter constructed at some height with vertical velocity 0,
\* under update() ticks; frames counts the ticks since construction.
FallHeights == {0, 1000, 3000, 4000, 4250, 4253, 4259, 4260}

FallCases ==
  { UnitWorld(v, [NewFighter(v, 400, 775) EXCEPT !.posY = y], Standing(v, 900, 10),
              StartTime) : v \in Variants, y \in FallHeights }

FallInit ==
  /\ \E w \in FallCases : Is(w)
  /\ frameMs = 17
  /\ lastEvent = Event("start", "")
  /\ frames = 0
  /\ events = 0

FallUpdate ==
  /\ frames < MaxTicks
  /\ Becomes(UnitUpdateW(World, "player"))
  /\ lastEvent' = Event("update", "player")
  /\ frames' = frames + 1
  /\ UNCHANGED <<frameMs, events>>

FallSpec == FallInit /\ [][FallUpdate]_vars

\* AnimSpec: a fighter under direct calls of setAnimation(key) and update()
\* ticks (which advance currentFrame); frames counts the ticks, events the
\* setAnimation calls.
AnimCallKeys == AnimationKeys \cup {"attackleft"}

AnimCases ==
  { UnitWorld(v, NewFighter(v, 400, 775), Standing(v, 900, 10), StartTime) :
      v \in Variants }

AnimInit ==
  /\ \E w \in AnimCases : Is(w)
  /\ frameMs = 17
  /\ lastEvent = Event("start", "")
  /\ frames = 0
  /\ events = 0

AnimSet(key) ==
  /\ Call("setAnimation", key)
  /\ Becomes([World EXCEPT !.player = setAnimation(player, key)])

AnimUpdate ==
  /\ frames < MaxFrames
  /\ Becomes(UnitUpdateW(World, "player"))
  /\ lastEvent' = Event("update", "player")
  /\ frames' = frames + 1
  /\ UNCHANGED <<frameMs, events>>

AnimNext ==
  \/ \E key \in AnimCallKeys : AnimSet(key)
  \/ AnimUpdate

AnimSpec == AnimInit /\ [][AnimNext]_vars

\* ------------------------------------------------------------ properties
IsFrame == lastEvent.kind = "frame"

IsKeyDown(k) == lastEvent = Event("keydown", k)

IsCall(kind, who) == lastEvent = Event(kind, who)

HealthInRange(f) == 0 <= f.health /\ f.health <= f.maxHealth

\* the health of a target that had health h after a hit of the given damage
HealthAfterHit(h, damage) == IF h < damage THEN 0 ELSE h - damage

\* C1: in both variants every fighter's health stays within 0..maxHealth in
\* every reachable state, and any step that changes a fighter's health takes
\* it to max(0, health - attackDamage of the other fighter): a hit on a target
\* with less health than the damage leaves exactly 0.
C1_HealthBounded ==
  /\ [](HealthInRange(player) /\ HealthInRange(enemy))
  /\ [][ /\ enemy.health' \in {enemy.health,
                               HealthAfterHit(enemy.health, player.attackDamage)}
         /\ player.health' \in {player.health,
                                HealthAfterHit(player.health, enemy.attackDamage)}
       ]_vars

\* the enhanced player's key attack has just taken the boss from 5 to 0
\* (200 is no multiple of the damage 15, so 0 is only reached by the clamp)
C1_Witness ==
  /\ variant = "enhanced"
  /\ IsKeyDown(" ")
  /\ enemy.health = 0
  /\ enemy.health < enemy.maxHealth
  /\ player.isAttacking

OnScreen(f) ==
  /\ 0 <= f.posX
  /\ f.posX <= canvasWidth - width
  /\ f.posY + heightT <= canvasHeightT

\* C5: after every Fighter.update, position.x is within 0..canvasWidth - width
\* (0..974) and position.y + height <= canvasHeight (576), whatever velocity
\* input, dodge or the AI set before the tick.
C5_OnScreen ==
  /\ canvasWidth - width = 974
  /\ OnScreen(player)
  /\ OnScreen(enemy)

\* a frame has just held the player at the left wall while it runs left
C5_Witness ==
  /\ IsFrame
  /\ player.posX = 0
  /\ player.velX = -runSpeed
  /\ player.lastDirection = "left"

\* the fighter named who, now and after the step
Fighter(who) == IF who = "player" THEN player ELSE enemy

FighterNext(who) == IF who = "player" THEN player' ELSE enemy'

\* the step is a direct call of who's attack(other)
AttackCall(who) == lastEvent' = Event("attack", who)

\* readiness as the claims word it: cooldown 0 and, enhanced, not dodging
Ready(a) == a.attackCooldown <= 0 /\ (variant = "enhanced" => ~a.isDodging)

\* distance from the attacker's facing edge to the target's near edge
EdgeDistance(a, t) ==
  IF a.lastDirection = "right" THEN t.posX - (a.posX + width)
  ELSE a.posX - (t.posX + width)

VerticalOverlap(a, t) ==
  a.posY < t.posY + heightT /\ a.posY + heightT > t.posY

RangeOf(v) == IF v = "base" THEN 100 ELSE 120

\* C2 as stated: with vertical overlap and a ready attacker, a target whose
\* near edge is exactly attackRange from the attacker's facing edge is hit and
\* a target at attackRange + 1 is not, facing right and facing left.
C2_Original ==
  [][\A who \in Who :
       LET a == Fighter(who)
           t == Fighter(Other(who))
       IN (AttackCall(who) /\ Ready(a) /\ VerticalOverlap(a, t)) =>
            /\ EdgeDistance(a, t) = RangeOf(variant) =>
                 FighterNext(Other(who)).health = HealthAfterHit(t.health, a.attackDamage)
            /\ EdgeDistance(a, t) = RangeOf(variant) + 1 =>
                 FighterNext(Other(who)).health = t.health
    ]_vars

\* C2: with vertical overlap and a ready attacker, a target whose near edge is
\* less than attackRange (100 base / 120 enhanced) ahead of the attacker's
\* facing edge, down to attackRange - 1, is hit; a target at exactly
\* attackRange or further is not hit (the comparisons are strict); facing
\* right and facing left.
C2_RangeBoundary ==
  [][\A who \in Who :
       LET a == Fighter(who)
           t == Fighter(Other(who))
           d == EdgeDistance(a, t)
       IN (AttackCall(who) /\ Ready(a) /\ VerticalOverlap(a, t)) =>
            /\ (0 <= d /\ d < RangeOf(variant)) =>
                 FighterNext(Other(who)).health = HealthAfterHit(t.health, a.attackDamage)
            /\ d >= RangeOf(variant) =>
                 FighterNext(Other(who)).health = t.health
    ]_vars

\* the player's first attack has just hit a full-health target standing
\* attackRange - 1 ahead of the facing edge
C2_Witness ==
  /\ IsCall("attack", "player")
  /\ events = 1
  /\ EdgeDistance(player, enemy) = RangeOf(variant) - 1
  /\ VerticalOverlap(player, enemy)
  /\ enemy.maxHealth = enemy.health + player.attackDamage
  /\ player.lastDirection = "left"

\* the overlap of the attacker's hitbox and the target's box, written out
BoxesOverlap(a, t) ==
  LET startX == IF a.lastDirection = "right" THEN a.posX + width
                ELSE a.posX - RangeOf(variant)
      endX == IF a.lastDirection = "right" THEN a.posX + width + RangeOf(variant)
              ELSE a.posX
  IN /\ endX > t.posX
     /\ startX < t.posX + width
     /\ a.posY < t.posY + heightT
     /\ a.posY + heightT > t.posY

\* C3: a successful attack() leaves the target with max(0, health -
\* attackDamage) if the attacker's hitbox overlaps the target's box on both
\* axes and with its health unchanged otherwise; e.g. attacker at x = 100
\* facing right, range 100: a target at x = 200 is hit, one at x = 260 missed.
C3_HitIffOverlap ==
  [][\A who \in Who :
       LET a == Fighter(who)
           t == Fighter(Other(who))
           h == FighterNext(Other(who)).health
       IN (AttackCall(who) /\ Ready(a)) =>
            /\ h = IF BoxesOverlap(a, t)
                   THEN HealthAfterHit(t.health, a.attackDamage) ELSE t.health
            /\ (variant = "base" /\ a.posX = 100 /\ a.lastDirection = "right"
                  /\ VerticalOverlap(a, t)) =>
                 /\ t.posX = 200 => h = HealthAfterHit(t.health, a.attackDamage)
                 /\ t.posX = 260 => h = t.health
    ]_vars

\* the base attacker at x = 100 facing right has just hit the target at x = 200
C3_Witness ==
  /\ variant = "base"
  /\ IsCall("attack", "player")
  /\ events = 1
  /\ player.posX = 100
  /\ player.lastDirection = "right"
  /\ enemy.posX = 200
  /\ enemy.health = 90
  /\ player.attackCooldown = baseAttackCooldown

\* C4: an attack() call made while the attacker's attackCooldown > 0 or,
\* enhanced, while the attacker isDodging changes nothing: not the target's
\* health, not the attacker's isAttacking, attackCooldown, comboCount or
\* lastAttackTime, nor any other field of the two fighters.
C4_GatedAttackIsNoOp ==
  [][\A who \in Who :
       LET a == Fighter(who)
       IN (AttackCall(who)
             /\ (a.attackCooldown > 0 \/ (variant = "enhanced" /\ a.isDodging))) =>
            /\ player' = player
            /\ enemy' = enemy
    ]_vars

\* attack() has just been called on a dodging attacker whose cooldown is 0,
\* and the target still has the health it started with
C4_Witness ==
  /\ variant = "enhanced"
  /\ IsCall("attack", "player")
  /\ events = 1
  /\ player.isDodging
  /\ player.attackCooldown = 0
  /\ ~player.isAttacking
  /\ enemy.health = enemy.maxHealth
  /\ BoxesOverlap(player, enemy)

\* C6: enhanced variant, three successful attack() calls 100 ms apart, with
\* canCombo true at the second and third: the first (canCombo not yet set)
\* gives comboCount 0 and attackCooldown 30, the second 1 and 25, the third 2
\* and 20; always attackCooldown = 30 - 5 * comboCount.
C6_ComboSequence ==
  [][\A who \in Who :
       LET a == Fighter(who)
           b == FighterNext(who)
       IN (variant = "enhanced" /\ AttackCall(who) /\ Ready(a)) =>
            /\ b.attackCooldown = 30 - 5 * b.comboCount
            /\ ~a.canCombo => (b.comboCount = 0 /\ b.attackCooldown = 30)
            /\ (a.canCombo /\ now - a.lastAttackTime = 100 /\ a.comboCount = 0) =>
                 (b.comboCount = 1 /\ b.attackCooldown = 25)
            /\ (a.canCombo /\ now - a.lastAttackTime = 100 /\ a.comboCount = 1) =>
                 (b.comboCount = 2 /\ b.attackCooldown = 20)
    ]_vars

\* the third attack of the sequence has just been made
C6_Witness ==
  /\ variant = "enhanced"
  /\ IsCall("attack", "player")
  /\ events = 1
  /\ player.comboCount = 2
  /\ player.attackCooldown = 20
  /\ player.lastAttackTime = now
  /\ player.isAttacking

\* the step is the player's attack key going down with the player ready
PlayerAttackKey ==
  /\ variant = "enhanced"
  /\ lastEvent' = Event("keydown", " ")
  /\ Ready(player)

\* the time of the tick at which the cooldown of f's last attack reaches 0
CooldownExpiry(f) == f.lastAttackTime + frameMs * (30 - 5 * f.comboCount)

\* C7 as stated: a follow-up attack less than 500 ms after the tick at which
\* attackCooldown reached 0 (canCombo set) advances comboCount cyclically and
\* shortens the cooldown; a later one resets comboCount to 0.
C7_Original ==
  [][(PlayerAttackKey /\ player.canCombo) =>
       /\ now - CooldownExpiry(player) < 500 =>
            /\ player'.comboCount = (player.comboCount + 1) % 3
            /\ player'.attackCooldown = 30 - 5 * player'.comboCount
       /\ now - CooldownExpiry(player) > 500 => player'.comboCount = 0
    ]_vars

\* C7: the combo window is 500 ms from the start of the previous attack
\* (lastAttackTime), not from the expiry of its cooldown: a follow-up attack
\* with canCombo set and less than 500 ms after the previous attack began
\* advances comboCount cyclically and sets the cooldown 30 - 5 * comboCount;
\* one made 500 ms or more after it, or before canCombo was ever set, resets
\* comboCount to 0.  canCombo is set by the tick at which the cooldown
\* reaches 0, which is CooldownExpiry.
C7_ComboWindow ==
  [][/\ (PlayerAttackKey /\ player.canCombo /\ now - player.lastAttackTime < 500) =>
          /\ player'.comboCount = (player.comboCount + 1) % 3
          /\ player'.attackCooldown = 30 - 5 * player'.comboCount
     /\ (PlayerAttackKey /\ (~player.canCombo \/ now - player.lastAttackTime >= 500)) =>
          /\ player'.comboCount = 0
          /\ player'.attackCooldown = 30
     /\ (variant = "enhanced" /\ lastEvent'.kind = "frame"
           /\ player.attackCooldown = 1 /\ player.isAttacking) =>
          /\ player'.attackCooldown = 0
          /\ player'.canCombo
          /\ ~player'.isAttacking
          /\ now' = CooldownExpiry(player)
    ]_vars

\* a follow-up inside the window has just advanced the combo from 0 to 1
C7_Witness ==
  /\ variant = "enhanced"
  /\ IsKeyDown(" ")
  /\ player.canCombo
  /\ player.comboCount = 1
  /\ player.attackCooldown = 25
  /\ player.lastAttackTime = now

\* C8: enhanced variant: no fighter is ever both isDodging and isAttacking; no
\* step starts an attack of a fighter that is dodging, and no step starts a
\* dodge of a fighter that is attacking, whatever the interleaving of key
\* events and frames.
C8_DodgeExcludesAttack ==
  /\ [](variant = "enhanced" =>
          /\ ~(player.isDodging /\ player.isAttacking)
          /\ ~(enemy.isDodging /\ enemy.isAttacking))
  /\ [][variant = "enhanced" =>
          \A who \in Who :
            LET a == Fighter(who)
                b == FighterNext(who)
            IN /\ a.isDodging =>
                    /\ b.isAttacking = a.isAttacking
                    /\ b.attackCooldown <= a.attackCooldown
                    /\ b.lastAttackTime = a.lastAttackTime
               /\ a.isAttacking =>
                    /\ b.isDodging = a.isDodging
                    /\ b.dodgeDuration = a.dodgeDuration
       ]_vars

\* the attack key has just gone down during the player's dodge and started
\* no attack, although the cooldown was 0
C8_Witness ==
  /\ variant = "enhanced"
  /\ IsKeyDown(" ")
  /\ player.isDodging
  /\ ~player.isAttacking
  /\ player.attackCooldown = 0
  /\ player.lastAttackTime = 0

\* the velocity the movement logic of a frame sets from the held keys
InputVelocity(k) == IF k.left THEN -5 ELSE IF k.right THEN 5 ELSE 0

FrameStep == lastEvent'.kind = "frame"

\* C9 as stated: input-apply runs first, so the player's update of the same
\* frame moves the player by the velocity of the keys held in that frame;
\* each fighter's update runs once per frame.
C9_Original ==
  [][FrameStep =>
       /\ player'.posX = ClampX(player.posX + InputVelocity(keys.player))
       /\ player'.framesElapsed = player.framesElapsed + 1
       /\ enemy'.framesElapsed = enemy.framesElapsed + 1
    ]_vars

\* C9: in every frame the driver runs, in this order, the player's update,
\* the enemy's update, input-apply (enhanced: the player's; base: both
\* fighters'), then (enhanced) the AI update, then the game-over check; each
\* update runs exactly once.  So the updates move both fighters by the
\* velocities left by the previous frame and the key handlers, the velocity
\* set from the keys only shows in the next frame, the AI decides on the
\* updated positions, and the check sees the damage the AI did in this frame.
C9_FrameOrder ==
  [][FrameStep =>
       /\ player'.framesElapsed = player.framesElapsed + 1
       /\ enemy'.framesElapsed = enemy.framesElapsed + 1
       /\ player'.posX = ClampX(player.posX + player.velX)
       /\ enemy'.posX = ClampX(enemy.posX + enemy.velX)
       /\ player'.velX = InputVelocity(keys.player)
       /\ variant = "base" => enemy'.velX = InputVelocity(keys.enemy)
       /\ (variant = "enhanced" /\ now' >= nextActionTime) =>
            LET distanceX == player'.posX - enemy'.posX
                distanceY == player'.posY - enemy'.posY
            IN /\ (Abs(distanceX) < 150 /\ Abs(distanceY) < 1000) =>
                    /\ nextActionTime' = now' + 50
                    /\ enemy'.velX =
                         IF 10 * distanceX + 7 * player'.velX > 0 THEN 3 ELSE -3
               /\ Abs(distanceX) >= 200 => nextActionTime' = now' + 100
       /\ (variant = "enhanced" /\ now' < nextActionTime) =>
            nextActionTime' = nextActionTime
       /\ scheduled' = (player'.health > 0 /\ enemy'.health > 0)
    ]_vars

\* the first frame after the left key went down has just run: the player has
\* the velocity of the key and has not moved yet
C9_Witness ==
  /\ variant = "enhanced"
  /\ IsFrame
  /\ frames = 1
  /\ events = 1
  /\ keys.player.left
  /\ player.posX = 100
  /\ player.velX = -5
  /\ player.framesElapsed = 2

\* C10: once the check of a frame finds player.health <= 0 or enemy.health
\* <= 0 no further frame is scheduled: from then on no frame runs, so neither
\* fighter's update nor the AI's update runs again, in both variants.
C10_GameOverTerminal ==
  [][/\ (FrameStep /\ (player'.health <= 0 \/ enemy'.health <= 0)) => ~scheduled'
     /\ ~scheduled =>
          /\ ~scheduled'
          /\ ~FrameStep
          /\ player'.framesElapsed = player.framesElapsed
          /\ enemy'.framesElapsed = enemy.framesElapsed
          /\ player'.posX = player.posX
          /\ enemy'.posX = enemy.posX
          /\ nextActionTime' = nextActionTime
    ]_vars

\* a key has just gone down after the frame whose check found the player at
\* health 0
C10_Witness ==
  /\ ~scheduled
  /\ player.health = 0
  /\ enemy.health > 0
  /\ lastEvent.kind = "keydown"
  /\ frames >= 1

\* the step is a direct call of enemyAI.update()
AICallStep == lastEvent' = Event("ai", "")

\* the target is in the AI's close range: |dx| < 150 px and |dy| < 100 px
InCloseRange ==
  /\ Abs(player.posX - enemy.posX) < 150
  /\ Abs(player.posY - enemy.posY) < 100 * 10

\* C11: AIController.update called at a time now < nextActionTime changes
\* nothing: the boss's velocity, animation, lastDirection and combat state,
\* the target's health (and every other field of the two fighters) and
\* nextActionTime are unchanged.
C11_AIGate ==
  [][(AICallStep /\ now < nextActionTime) =>
       /\ enemy' = enemy
       /\ player' = player
       /\ nextActionTime' = nextActionTime
    ]_vars

\* update() has just been called before nextActionTime with the target in
\* close range, and the boss has not attacked
C11_Witness ==
  /\ IsCall("ai", "")
  /\ events = 1
  /\ now < nextActionTime
  /\ InCloseRange
  /\ ~enemy.isAttacking
  /\ enemy.velX = 0
  /\ player.health = player.maxHealth

\* which branch of an eligible update ran, read from the velocity it leaves:
\* 3 after an attack decision, 5 after movement, 9 (5 * 1.8) after a jump
AttackBranchFired == Abs(enemy'.velX) = 3

JumpBranchFired == Abs(enemy'.velX) = 9 /\ enemy'.velY = -220

MoveOnlyFired == Abs(enemy'.velX) = 5

\* C12: after an eligible AIController.update at time now, nextActionTime is
\* now + 50 if the attack branch fired, now + 30 if the jump branch fired and
\* now + 100 if neither fired.
C12_ReDecisionGate ==
  [][(AICallStep /\ now >= nextActionTime) =>
       /\ AttackBranchFired => nextActionTime' = now + 50
       /\ JumpBranchFired => nextActionTime' = now + 30
       /\ MoveOnlyFired => nextActionTime' = now + 100
    ]_vars

\* C13: on every eligible AIController.update with |dx| < 150 and |dy| < 100
\* the controller calls fighter.attack(target) and returns without the
\* movement or jump decision, whatever the random draws; movement and jump
\* are reached only when the attack decision is false.
C13_AttackPriority ==
  [][(AICallStep /\ now >= nextActionTime) =>
       /\ InCloseRange =>
            /\ AttackBranchFired
            /\ nextActionTime' = now + 50
            /\ enemy'.velY = enemy.velY
            /\ enemy'.lastDirection = enemy.lastDirection
            /\ enemy.attackCooldown <= 0 =>
                 /\ enemy'.isAttacking
                 /\ enemy'.lastAttackTime = now
                 /\ enemy'.attackCooldown = 30 - 5 * enemy'.comboCount
       /\ (MoveOnlyFired \/ JumpBranchFired) =>
            /\ ~InCloseRange
            /\ enemy'.isAttacking = enemy.isAttacking
            /\ enemy'.attackCooldown = enemy.attackCooldown
            /\ enemy'.lastAttackTime = enemy.lastAttackTime
            /\ player'.health = player.health
    ]_vars

\* the boss has just attacked a grounded target 60 px away
C13_Witness ==
  /\ IsCall("ai", "")
  /\ events = 1
  /\ player.posX - enemy.posX = 60
  /\ player.posY = enemy.posY
  /\ enemy.isAttacking
  /\ enemy.lastAttackTime = now
  /\ nextActionTime = now + 50

EnumeratedAnimations ==
  {"idleRight", "idleLeft", "runRight", "runLeft",
   "jumpRight", "jumpLeft", "attackRight", "attackLeft"}

\* C14: in every reachable state each fighter's currentAnimation is one of
\* the eight keys idleRight, idleLeft, runRight, runLeft, jumpRight, jumpLeft,
\* attackRight, attackLeft, also after an attack decision of the AI.
C14_AnimationEnumerated ==
  /\ player.currentAnimation \in EnumeratedAnimations
  /\ enemy.currentAnimation \in EnumeratedAnimations

\* the step is an update() tick of the player
UpdateStep == lastEvent' = Event("update", "player")

\* the length of the cooldown of the attack f has started
CooldownTicks(f) == IF variant = "base" THEN 120 ELSE 30 - 5 * f.comboCount

\* C15 as stated: after every Fighter.update, isAttacking implies
\* attackCooldown > 0, in both variants.
C15_Original ==
  [][UpdateStep => (player'.isAttacking => player'.attackCooldown > 0)]_vars

\* C15: in the enhanced variant isAttacking is cleared by the update tick in
\* which attackCooldown reaches 0, so after every update isAttacking holds
\* exactly while attackCooldown > 0; in the base variant it is cleared by the
\* next tick, so after the tick that brings attackCooldown to 0 the fighter is
\* still isAttacking, for that one tick.
C15_AttackingWhileCooling ==
  [][UpdateStep =>
       /\ variant = "enhanced" => (player'.isAttacking <=> player'.attackCooldown > 0)
       /\ variant = "base" =>
            /\ player'.isAttacking <=> frames' <= 120
            /\ player'.attackCooldown > 0 <=> frames' < 120
    ]_vars

\* the base fighter after the 120th tick: cooldown 0 and still isAttacking
C15_Witness ==
  /\ variant = "base"
  /\ IsCall("update", "player")
  /\ frames = 120
  /\ player.attackCooldown = 0
  /\ player.isAttacking

\* C16: after an attack() that started, attack() calls made after fewer than
\* N update ticks change nothing and the first call made after the N-th tick
\* starts an attack, N = 120 (base) or 30 - 5 * comboCount (enhanced); the
\* cooldown goes down by one per tick, so N ticks bring the fighter back to
\* ready.
C16_AttackCycle ==
  /\ [](player.attackCooldown =
          IF frames < CooldownTicks(player) THEN CooldownTicks(player) - frames ELSE 0)
  /\ [][lastEvent' = Event("attack", "player") =>
          /\ frames < CooldownTicks(player) =>
               (player' = player /\ enemy' = enemy)
          /\ frames >= CooldownTicks(player) =>
               /\ player'.isAttacking
               /\ player'.attackCooldown = CooldownTicks(player')
               /\ player'.attackCooldown > 0
       ]_vars

\* the base fighter's attack after exactly 120 ticks has just started
C16_Witness ==
  /\ variant = "base"
  /\ IsCall("attack", "player")
  /\ player.framesElapsed = 120
  /\ player.attackCooldown = 120
  /\ player.isAttacking
  /\ events = 1

DodgeKeyStep == lastEvent' = Event("dodge", "player")

\* C17: enhanced variant: the update tick in which a dodging fighter's
\* dodgeDuration reaches 0 (the 15th of the dodge) makes isDodging false,
\* dodgeCooldown 45 and velocity.x 0 and selects the idle animation of
\* lastDirection; dodgeCooldown then goes down by one per tick, and a press
\* of the dodge key starts no dodge before 45 further ticks have run and
\* starts one after them.
C17_DodgeEnd ==
  /\ [](/\ player.isDodging => (frames < 15 /\ player.dodgeDuration = 15 - frames)
        /\ ~player.isDodging =>
             player.dodgeCooldown = IF frames < 45 THEN 45 - frames ELSE 0)
  /\ [][/\ (UpdateStep /\ player.isDodging /\ player.dodgeDuration = 1) =>
             /\ ~player'.isDodging
             /\ player'.dodgeCooldown = 45
             /\ player'.velX = 0
             /\ player'.currentAnimation =
                  IF player.lastDirection = "right" THEN "idleRight" ELSE "idleLeft"
        /\ (UpdateStep /\ player.isDodging /\ player.dodgeDuration > 1) =>
             /\ player'.isDodging
             /\ player'.velX = player.velX
        /\ (DodgeKeyStep /\ ~player.isDodging /\ frames < 45) => player' = player
        /\ (DodgeKeyStep /\ ~player.isDodging /\ frames >= 45) =>
             (player'.isDodging /\ player'.dodgeDuration = 15)
       ]_vars

\* the 15th tick of a dodge to the left has just ended it
C17_Witness ==
  /\ IsCall("update", "player")
  /\ frames = 0
  /\ events = 0
  /\ ~player.isDodging
  /\ player.dodgeCooldown = 45
  /\ player.velX = 0
  /\ player.currentAnimation = "idleLeft"
  /\ player.posX = 400 - 15 * 12

\* C18: enhanced variant: whenever the player isDodging, the Fighter.update
\* of a frame runs with horizontal velocity +dodgeSpeed or -dodgeSpeed and
\* moves the player by it, whatever movement keys are held.
C18_DodgeForcedVelocity ==
  [][(variant = "enhanced" /\ FrameStep /\ player.isDodging) =>
       /\ player.velX \in {12, -12}
       /\ player'.posX = ClampX(player.posX + player.velX)
    ]_vars

\* the fighter is above ground level: position.y + height < canvas.height
Airborne(f) == f.posY + 150 * 10 < 576 * 10

\* C19: a fighter that starts with vertical velocity 0 and is airborne at
\* each ground check has vertical velocity exactly 0.7 * n (7 n tenths) after
\* n update ticks; a fighter found at or below ground level by the check has
\* vertical velocity 0 and position.y = canvas.height - height.
C19_GravityLaw ==
  /\ [](/\ Airborne(player) => player.velY = 7 * frames
        /\ (~Airborne(player) /\ frames > 0) =>
             (player.velY = 0 /\ player.posY = (576 - 150) * 10))
  /\ [][UpdateStep =>
          IF player.posY + player.velY + 150 * 10 < 576 * 10
          THEN /\ player'.posY = player.posY + player.velY
               /\ player'.velY = player.velY + 7
          ELSE /\ player'.posY = (576 - 150) * 10
               /\ player'.velY = 0
       ]_vars

\* a fighter dropped from the top of the canvas after 20 ticks in the air
C19_Witness ==
  /\ IsCall("update", "player")
  /\ frames = 20
  /\ Airborne(player)
  /\ player.velY = 140
  /\ player.posY = 7 * 190

SetAnimationStep == lastEvent'.kind = "setAnimation"

\* C20: setAnimation with the key that is already active leaves
\* currentAnimation and currentFrame (and the rest of the fighter) unchanged,
\* so a second call with the same key changes nothing; with a different key
\* it sets currentAnimation to that key and currentFrame to 0.
C20_SetAnimationIdempotent ==
  [][SetAnimationStep =>
       LET key == lastEvent'.arg
       IN /\ key = player.currentAnimation => player' = player
          /\ key # player.currentAnimation =>
               /\ player'.currentAnimation = key
               /\ player'.currentFrame = 0
               /\ player' = [player EXCEPT !.currentAnimation = key, !.currentFrame = 0]
          /\ setAnimation(player', key) = player'
    ]_vars

\* setAnimation("runRight") has just been called on a fighter already
\* running right and showing the second frame
C20_Witness ==
  /\ lastEvent = Event("setAnimation", "runRight")
  /\ player.currentAnimation = "runRight"
  /\ player.currentFrame = 1
  /\ events >= 2

AIMoveStep == AICallStep /\ now >= nextActionTime /\ ~AttackBranchFired

\* the boss is within 100 px of a screen edge with the target beyond it on
\* that side
CorneredLeft == enemy.posX < 100 /\ player.posX - enemy.posX < 0

CorneredRight == enemy.posX > 1024 - 50 - 100 /\ player.posX - enemy.posX > 0

\* twice target.x + 0.5 * target.velocity.x - fighter.x
PredictedDistance2 == 2 * (player.posX - enemy.posX) + player.velX

Sign(n) == IF n > 0 THEN 1 ELSE IF n < 0 THEN -1 ELSE 0

\* what C22 says of the magnitude, the animation and lastDirection
AIMoveShape ==
  /\ Abs(enemy'.velX) = IF JumpBranchFired THEN 9 ELSE 5
  /\ ~JumpBranchFired =>
       enemy'.currentAnimation = IF enemy'.velX > 0 THEN "runRight" ELSE "runLeft"
  /\ JumpBranchFired =>
       enemy'.currentAnimation =
         IF enemy'.lastDirection = "right" THEN "jumpRight" ELSE "jumpLeft"
  /\ player.posX - enemy.posX > 0 => enemy'.lastDirection = "right"
  /\ player.posX - enemy.posX < 0 => enemy'.lastDirection = "left"

\* C22 as stated: on an eligible update whose attack decision is false the
\* boss's horizontal velocity points away from the edge when it is cornered
\* and otherwise has the sign of target.x + 0.5 * target.velocity.x -
\* fighter.x; magnitude 5, or 9 with a jump; animation runRight/runLeft by
\* that sign unless the jump replaces it; lastDirection the direction of the
\* target.
C22_Original ==
  [][AIMoveStep =>
       /\ CorneredLeft => enemy'.velX > 0
       /\ CorneredRight => enemy'.velX < 0
       /\ ~(CorneredLeft \/ CorneredRight) => Sign(enemy'.velX) = Sign(PredictedDistance2)
       /\ AIMoveShape
    ]_vars

\* C22: as C22_Original, except that the velocity of a boss that is not
\* cornered is positive when target.x + 0.5 * target.velocity.x - fighter.x
\* is positive and negative otherwise, also when that prediction is exactly
\* 0; and lastDirection is "left" when the target is at the same x.
C22_AIMovement ==
  [][AIMoveStep =>
       /\ CorneredLeft => enemy'.velX > 0
       /\ CorneredRight => enemy'.velX < 0
       /\ ~(CorneredLeft \/ CorneredRight) =>
            /\ PredictedDistance2 > 0 => enemy'.velX > 0
            /\ PredictedDistance2 <= 0 => enemy'.velX < 0
       /\ AIMoveShape
       /\ player.posX - enemy.posX = 0 => enemy'.lastDirection = "left"
    ]_vars

\* the boss, cornered at the right edge with the target beyond it, has just
\* turned away from the edge and jumped
C22_Witness ==
  /\ IsCall("ai", "")
  /\ events = 1
  /\ enemy.posX = 900
  /\ player.posX = 960
  /\ enemy.velX = -9
  /\ enemy.velY = -220
  /\ enemy.lastDirection = "right"
  /\ enemy.currentAnimation = "jumpRight"

\* C23: whenever AIController.update invokes fighter.attack(target), the
\* boss's lastDirection, which sets the side of the hitbox, is the direction
\* from the boss to the target computed in that decision, so the hitbox
\* extends toward the target.
C23_AIAttackFacing ==
  [][(variant = "enhanced" /\ FrameStep
        /\ now' >= nextActionTime /\ nextActionTime' = now' + 50) =>
       enemy'.lastDirection =
         IF player'.posX - enemy'.posX > 0 THEN "right" ELSE "left"
    ]_vars

\* C24: enhanced variant: once isDodging has become true it is false again
\* within 15 update ticks, whatever keys are pressed in between, the dodge
\* key included.  (In DodgeSpec the player's framesElapsed is the number of
\* ticks since its first dodge began, and a dodge that ended by the 15th tick
\* is followed by 45 ticks in which none can begin.)
C24_DodgeTimeBounded ==
  player.isDodging => ~(player.framesElapsed >= 15 /\ player.framesElapsed < 15 + 45)

\* the fields C25 names
CombatState(f) ==
  <<f.health, f.attackCooldown, f.dodgeCooldown, f.isAttacking, f.isDodging,
    f.currentAnimation, f.currentFrame>>

\* C25: once game over has been detected and the loop has stopped, neither
\* fighter's health, cooldowns or animation state changes again, whatever
\* key events arrive.
C25_GameOverFrozen ==
  [][~scheduled =>
       /\ CombatState(player') = CombatState(player)
       /\ CombatState(enemy') = CombatState(enemy)
    ]_vars

\* the state right after construction and the first frame of the match
MatchStart == lastEvent = Event("start", "") /\ now = StartTime

\* C26: enhanced variant: the boss starts the match with health 500,
\* maxHealth 500 and attackDamage 25, as its construction options say, and
\* the player with health 200, maxHealth 200 and attackDamage 15.
C26_InitialStats ==
  (variant = "enhanced" /\ MatchStart) =>
    /\ enemy.health = 500 /\ enemy.maxHealth = 500 /\ enemy.attackDamage = 25
    /\ player.health = 200 /\ player.maxHealth = 200 /\ player.attackDamage = 15

\* the timers of one fighter within the ranges the code gives them
TimersInRange(f, v) ==
  /\ f.attackCooldown \in 0 .. (IF v = "base" THEN baseAttackCooldown ELSE comboBaseCooldown)
  /\ v = "enhanced" =>
       /\ f.dodgeCooldown \in 0 .. dodgeRecover
       /\ f.dodgeDuration \in 0 .. dodgeFrames
       /\ f.comboCount \in 0 .. (comboModulus - 1)

\* C27: in every reachable state attackCooldown is an integer in 0..120
\* (base) or 0..30 (enhanced) and, in the enhanced variant, dodgeCooldown is
\* in 0..45, dodgeDuration in 0..15 and comboCount in {0,1,2}: no timer is
\* ever negative.
C27_TimerBounds ==
  TimersInRange(player, variant) /\ TimersInRange(enemy, variant)

\* the player has just struck the third blow of a combo, its cooldown at
\* 30 - 2 * 5, while the boss is cooling down as well
C27_Witness ==
  /\ variant = "enhanced"
  /\ IsKeyDown(" ")
  /\ player.comboCount = 2
  /\ player.attackCooldown = comboBaseCooldown - 2 * comboStepCooldown

====
